---- MODULE Spec2Model ----
(***************************************************************************)
(* Model of the CSV-to-Sheets upload pipeline (app/main.py, app/sheets.py, *)
(* app/utils.py): one POST /upload request handled by upload_csv, the      *)
(* external spreadsheet backend it provisions, and the background run      *)
(* (background_upload -> upload_data_to_sheet -> upload_batch_with_retry)  *)
(* that the framework starts after the response has been transmitted.      *)
(*                                                                         *)
(* Sizes are scaled down: MAX_FILE_SIZE, CHUNK_SIZE, CELL_LIMIT and        *)
(* BATCH_SIZE play the role of the source's constants of the same name at  *)
(* a size TLC can enumerate; the SRC_ definitions carry the source's own   *)
(* values and are used where a claim quotes concrete numbers.              *)
(***************************************************************************)
EXTENDS Integers, Sequences, FiniteSets, TLC

\* ---------------------------------------------------------------- bounds
\* Scaled stand-ins for the source's size constants.
MAX_FILE_SIZE == 4
CHUNK_SIZE == 2
CELL_LIMIT == 8
BATCH_SIZE == 2
\* Streams carry 0 .. MAX_FILE_SIZE + StreamSlack bytes.
StreamSlack == 3
\* csv.reader yields at most MaxRawRows rows for the modelled uploads.
MaxRawRows == 5
\* FnSpec calls parse_csv / validate_csv on documents of at most FnMaxRows rows.
FnMaxRows == 3
\* requests in flight at the same time
NReq == 2

\* ------------------------------------------------------ program constants
SRC_MAX_FILE_SIZE == 209715200
SRC_CELL_LIMIT == 10000000
SRC_BATCH_SIZE == 10000
max_retries == 3

\* ---------------------------------------------------------------- helpers
Min(a, b) == IF a < b THEN a ELSE b

Max(a, b) == IF a > b THEN a ELSE b

RECURSIVE Pow2(_)
Pow2(n) == IF n = 0 THEN 1 ELSE 2 * Pow2(n - 1)

RECURSIVE SumSeq(_)
SumSeq(s) == IF s = <<>> THEN 0 ELSE Head(s) + SumSeq(Tail(s))

MaxLen_m(rs) == Len(rs[1])

\* max(len(row) for row in rows), for a non-empty list of rows
RECURSIVE MaxLen(_)
MaxLen(rs) ==
  IF Len(rs) = 1 THEN Len(rs[1]) ELSE Max(Len(Head(rs)), MaxLen(Tail(rs)))

\* ------------------------------------------------------------- input data
\* File names are sequences of characters.
CSV_SUFFIX == <<".", "c", "s", "v">>

Filenames ==
  { <<"a">> \o CSV_SUFFIX,
    <<"a", ".", "t", "x", "t">>,
    CSV_SUFFIX,
    <<"a">> \o CSV_SUFFIX \o <<".", "b", "a", "k">>,
    <<"a">> \o CSV_SUFFIX \o CSV_SUFFIX }

\* The rows csv.reader can yield in the model: an empty line, a blank row
\* (" " is a whitespace-only cell), a one-cell row, two two-cell rows.
RawRowSet == { <<>>, <<" ", "">>, <<"a">>, <<"a", "b">>, <<"b", " ">> }

RECURSIVE SeqsUpTo(_, _)
SeqsUpTo(S, n) ==
  IF n = 0 THEN { <<>> }
  ELSE LET shorter == SeqsUpTo(S, n - 1)
       IN shorter \cup { Append(s, x) : s \in { t \in shorter : Len(t) = n - 1 }, x \in S }

\* A non-empty byte buffer makes csv.reader yield at least one row.
RawDocs == { d \in SeqsUpTo(RawRowSet, MaxRawRows) : Len(d) >= 1 }

\* What the caller is told when iterating csv.reader raises csv.Error (a bare
\* carriage return inside an unquoted field, an over-long field).
CsvError == "Internal Server Error"

\* ------------------------------------------------------------ pure helpers
\* str.endswith
EndsWith(s, suf) ==
  /\ Len(s) >= Len(suf)
  /\ SubSeq(s, Len(s) - Len(suf) + 1, Len(s)) = suf

StartsWith(s, pre) ==
  /\ Len(s) >= Len(pre)
  /\ SubSeq(s, 1, Len(pre)) = pre

IsCsvFilename_m(f) == \E i \in 1..Len(f) : StartsWith(SubSeq(f, i, Len(f)), CSV_SUFFIX)

\* main.py:68  file.filename.endswith(".csv")
IsCsvFilename(f) == EndsWith(f, CSV_SUFFIX)

\* str.replace(old, ""): every non-overlapping occurrence, left to right
RECURSIVE RemoveAll(_, _)
RemoveAll(s, old) ==
  IF s = <<>> THEN <<>>
  ELSE IF StartsWith(s, old) THEN RemoveAll(SubSeq(s, Len(old) + 1, Len(s)), old)
  ELSE <<Head(s)>> \o RemoveAll(Tail(s), old)

\* str.strip() on a sequence of characters
RECURSIVE LStrip(_)
LStrip(s) == IF s # <<>> /\ Head(s) = " " THEN LStrip(Tail(s)) ELSE s

RECURSIVE RStrip(_)
RStrip(s) ==
  IF s # <<>> /\ s[Len(s)] = " " THEN RStrip(SubSeq(s, 1, Len(s) - 1)) ELSE s

StripChars(s) == RStrip(LStrip(s))

DEFAULT_TITLE == <<"Uploaded CSV">>

\* main.py:134
SheetTitle(f) ==
  LET t == StripChars(RemoveAll(f, CSV_SUFFIX))
  IN IF t = <<>> THEN DEFAULT_TITLE ELSE t

\* cell.strip() on the model's cells: " " is the whitespace-only cell
Strip(c) == IF c = " " THEN "" ELSE c

\* any(cell.strip() for cell in row)
HasNonBlankCell(row) == \E i \in 1..Len(row) : Strip(row[i]) # ""

parse_csv_nostrip(raw) == SelectSeq(raw, LAMBDA row : \E i \in 1..Len(row) : row[i] # "")

parse_csv_all(raw) == SelectSeq(raw, LAMBDA row : \A i \in 1..Len(row) : Strip(row[i]) # "")

\* utils.py:24-28 on the rows csv.reader yields
parse_csv(raw) == SelectSeq(raw, HasNonBlankCell)

EMPTY_MSG == "The CSV file is empty."
MISSING_DATA_MSG == "The CSV file must have at least a header row and one data row."
EMPTY_HEADER_MSG == "The header row appears to be empty."

validate_csv_order(rs) ==
  IF rs = <<>> THEN [valid |-> FALSE, msg |-> EMPTY_MSG]
  ELSE IF ~HasNonBlankCell(rs[1]) THEN [valid |-> FALSE, msg |-> EMPTY_HEADER_MSG]
  ELSE IF Len(rs) < 2 THEN [valid |-> FALSE, msg |-> MISSING_DATA_MSG]
  ELSE [valid |-> TRUE, msg |-> ""]

validate_csv_m(rs) ==
  IF rs = <<>> THEN [valid |-> FALSE, msg |-> EMPTY_MSG]
  ELSE IF ~HasNonBlankCell(rs[1]) THEN [valid |-> FALSE, msg |-> EMPTY_HEADER_MSG]
  ELSE [valid |-> TRUE, msg |-> ""]

\* utils.py:31-54
validate_csv(rs) ==
  IF rs = <<>> THEN [valid |-> FALSE, msg |-> EMPTY_MSG]
  ELSE IF Len(rs) < 2 THEN [valid |-> FALSE, msg |-> MISSING_DATA_MSG]
  ELSE IF ~HasNonBlankCell(rs[1]) THEN [valid |-> FALSE, msg |-> EMPTY_HEADER_MSG]
  ELSE [valid |-> TRUE, msg |-> ""]

ExceedsLimit_m(cells, limit) == cells >= limit

\* main.py:120  total_cells > CELL_LIMIT
ExceedsLimit(cells, limit) == cells > limit

PreflightExceeds_m(cells, limit) == cells >= limit

\* sheets.py:204  total_cells > CELL_LIMIT, the engine's own copy of the test
PreflightExceeds(cells, limit) == cells > limit

\* main.py:121-129: the numbers the detail message reports
CapacityDetail(r, c, cells) ==
  [msg |-> "CSV too large for Google Sheets", rows |-> r, cols |-> c, cells |-> cells,
   limit |-> "10,000,000"]

\* main.py:85-98: one pass of the read loop on a non-empty chunk of n bytes
ReadStep_m(chs, total, n, limit) ==
  IF total + n > limit + n
  THEN [chunks |-> <<>>, total_size |-> total + n, raised |-> TRUE]
  ELSE [chunks |-> Append(chs, n), total_size |-> total + n, raised |-> FALSE]

ReadStep(chs, total, n, limit) ==
  IF total + n > limit
  THEN [chunks |-> <<>>, total_size |-> total + n, raised |-> TRUE]
  ELSE [chunks |-> Append(chs, n), total_size |-> total + n, raised |-> FALSE]

\* ------------------------------------------------------ batching (sheets.py)
\* sheets.py:216  Sheets rows are 1-indexed
SheetRow_m(start_index) == start_index

SheetRow(start_index) == start_index + 1

\* sheets.py:215  data[start_index: start_index + BATCH_SIZE]
BatchSlice_m(data, start_index, size) ==
  SubSeq(data, start_index + 1, Min(start_index + size, Len(data)) - 1)

BatchSlice(data, start_index, size) ==
  SubSeq(data, start_index + 1, Min(start_index + size, Len(data)))

\* sheets.py:214  range(start, stop, step) as a sequence
RECURSIVE RangeFrom(_, _, _)
RangeFrom(start, stop, step) ==
  IF start >= stop THEN <<>> ELSE <<start>> \o RangeFrom(start + step, stop, step)

IsLastAttempt_m(attempt) == attempt = max_retries

\* sheets.py:169
IsLastAttempt(attempt) == attempt = max_retries - 1

WaitSeconds_m(attempt) == Pow2(attempt)

\* sheets.py:176
WaitSeconds(attempt) == Pow2(attempt + 1)

RecordFailure_m(failed, sheet_row) == failed

\* sheets.py:226
RecordFailure(failed, sheet_row) == Append(failed, sheet_row)

\* ------------------------------------------------------------ the backend
NoValue == "<unset>"

NewSheet_swapped(title, r, c) ==
  [title |-> title, rowCount |-> c, columnCount |-> r, public |-> FALSE,
   cells |-> [i \in 1..c |-> [j \in 1..r |-> NoValue]]]

\* spreadsheets().create with gridProperties rowCount x columnCount
NewSheet(title, r, c) ==
  [title |-> title, rowCount |-> r, columnCount |-> c, public |-> FALSE,
   cells |-> [i \in 1..r |-> [j \in 1..c |-> NoValue]]]

\* values().update at Sheet1!A{sheet_row}: the cells covered by the batch
\* are overwritten, every other cell keeps its value
WriteRange(cells, sheet_row, batch) ==
  [i \in DOMAIN cells |->
     IF i >= sheet_row /\ i < sheet_row + Len(batch)
     THEN [j \in DOMAIN cells[i] |->
             IF j <= Len(batch[i - sheet_row + 1])
             THEN batch[i - sheet_row + 1][j] ELSE cells[i][j]]
     ELSE cells[i]]

\* ------------------------------------------------------------------ state
VARIABLES
  filename,        \* file.filename
  remaining,       \* bytes of the upload stream not yet read
  chunks,          \* lengths of the buffered chunks
  total_size,
  file_bytes,      \* length of the joined buffer; NoBytes before join and after del
  rows,            \* parse_csv's result
  total_rows, total_cols, total_cells,
  pc,              \* position of upload_csv
  status, detail,  \* what upload_csv ended with (HTTPException or JSONResponse)
  raised_at,       \* the statement of upload_csv that raised; NoStage if none did
  received,        \* what the caller has been sent; NotSent until transmitted
  credCalls, createCalls, publishCalls,   \* calls issued by upload_csv
  calls,           \* the create and publish calls of upload_csv, in order
  sheets,          \* the backend: spreadsheet id -> spreadsheet
  spreadsheet_id,
  task,            \* background_tasks: the scheduled (spreadsheet_id, data)
  bgpc,            \* position of the background run
  bgOutcome,
  iter,            \* iterations of the batch loop completed
  start_index, attempt, failed_batches,
  log,             \* write attempts and backoff sleeps of the background run
  call,            \* FnSpec: a call of parse_csv / validate_csv outside a request
  reqs,            \* ConcSpec: the requests in flight, each with its locals
  drive,           \* ConcSpec: the spreadsheets of the backend, by id
  events           \* ConcSpec: the create and write calls the backend served

requestVars ==
  <<filename, remaining, chunks, total_size, file_bytes, rows, total_rows,
    total_cols, total_cells, pc, status, detail, raised_at, received, credCalls,
    createCalls, publishCalls, calls, sheets, spreadsheet_id, task, bgpc, bgOutcome,
    iter, start_index, attempt, failed_batches, log>>

\* state of the other specifications of this module
concVars == <<reqs, drive, events>>
sideVars == <<call, concVars>>

vars == <<requestVars, sideVars>>

inputVars == <<filename>>
intakeVars == <<remaining, chunks, total_size, file_bytes>>
docVars == <<rows, total_rows, total_cols, total_cells>>
backendVars == <<credCalls, createCalls, publishCalls, calls, sheets, spreadsheet_id>>
bgVars == <<bgpc, bgOutcome, iter, start_index, attempt, failed_batches, log>>

Unset == "<none>"
NoBytes == 0 - 1
NoId == 0
NoStage == "<none>"
NoDetail == [msg |-> Unset]
NotSent == [sent |-> FALSE]
NoTask == [scheduled |-> FALSE]

\* a create or publish call: the id it returned or was given, and its outcome
Call(op, id, ok) == [op |-> op, id |-> id, ok |-> ok]

\* detail of an HTTPException
Detail(m) == [msg |-> m]

NoVerdict == [valid |-> FALSE, msg |-> Unset]
NoCall == [stage |-> "none", raw |-> <<>>, rows |-> <<>>, verdict |-> NoVerdict]

\* no request of the concurrent specification exists
NoRequests == reqs = <<>> /\ drive = <<>> /\ events = {}

\* a request on arrival, before upload_csv has run
NewRequest(f, n) ==
  /\ filename = f
  /\ remaining = n
  /\ chunks = <<>>
  /\ total_size = 0
  /\ file_bytes = NoBytes
  /\ rows = <<>>
  /\ total_rows = 0 /\ total_cols = 0 /\ total_cells = 0
  /\ pc = "check_type"
  /\ status = 0 /\ detail = NoDetail /\ raised_at = NoStage
  /\ received = NotSent
  /\ credCalls = 0 /\ createCalls = 0 /\ publishCalls = 0
  /\ calls = <<>>
  /\ sheets = <<>>
  /\ spreadsheet_id = NoId
  /\ task = NoTask
  /\ bgpc = "idle"
  /\ bgOutcome = Unset
  /\ iter = 0 /\ start_index = 0 /\ attempt = 0 /\ failed_batches = <<>>
  /\ log = <<>>

Init ==
  /\ \E f \in Filenames, n \in 0..(MAX_FILE_SIZE + StreamSlack) : NewRequest(f, n)
  /\ call = NoCall
  /\ NoRequests

\* raise HTTPException(status_code=code, detail=d): upload_csv ends
Raise(code, d, stage) ==
  /\ status' = code
  /\ detail' = d
  /\ raised_at' = stage
  /\ pc' = "done"

\* ------------------------------------------------- upload_csv (main.py)
\* main.py:67-69
CheckFileType ==
  /\ pc = "check_type"
  /\ IF ~IsCsvFilename(filename)
     THEN Raise(400, Detail("Only .csv files are accepted."), "file_type")
     ELSE pc' = "read" /\ UNCHANGED <<status, detail, raised_at>>
  /\ UNCHANGED <<sideVars, inputVars, intakeVars, docVars, received, backendVars, task, bgVars>>

\* main.py:80-98: file.read returned a non-empty chunk of n bytes
ReadChunk ==
  /\ pc = "read"
  /\ remaining > 0
  /\ \E n \in 1..Min(CHUNK_SIZE, remaining) :
       LET r == ReadStep(chunks, total_size, n, MAX_FILE_SIZE)
       IN /\ remaining' = remaining - n
          /\ chunks' = r.chunks
          /\ total_size' = r.total_size
          /\ IF r.raised
             THEN Raise(400, Detail("File too large."), "size")
             ELSE UNCHANGED <<pc, status, detail, raised_at>>
  /\ UNCHANGED <<sideVars, inputVars, file_bytes, docVars, received, backendVars, task, bgVars>>

\* main.py:81-83, 100-104: file.read returned b"", join, empty check
ReadEof ==
  /\ pc = "read"
  /\ remaining = 0
  /\ file_bytes' = SumSeq(chunks)
  /\ chunks' = <<>>
  /\ IF SumSeq(chunks) = 0
     THEN Raise(400, Detail("The uploaded file is empty."), "empty")
     ELSE pc' = "parse" /\ UNCHANGED <<status, detail, raised_at>>
  /\ UNCHANGED <<sideVars, inputVars, remaining, total_size, docVars, received, backendVars,
                 task, bgVars>>

\* main.py:106-113: parse_csv raises csv.Error (not caught anywhere, the
\* framework answers 500) or returns rows, which validate_csv then judges
ParseAndValidate ==
  /\ pc = "parse"
  /\ file_bytes' = NoBytes
  /\ \/ /\ Raise(500, Detail(CsvError), "parse")
        /\ UNCHANGED rows
     \/ \E content \in RawDocs :
          /\ rows' = parse_csv(content)
          /\ LET v == validate_csv(parse_csv(content))
             IN IF ~v.valid
                THEN Raise(422, Detail(v.msg), "validate")
                ELSE pc' = "cell_limit" /\ UNCHANGED <<status, detail, raised_at>>
  /\ UNCHANGED <<sideVars, inputVars, remaining, chunks, total_size, total_rows, total_cols,
                 total_cells, received, backendVars, task, bgVars>>

\* main.py:115-129
CheckCellLimit ==
  /\ pc = "cell_limit"
  /\ total_rows' = Len(rows)
  /\ total_cols' = MaxLen(rows)
  /\ total_cells' = Len(rows) * MaxLen(rows)
  /\ IF ExceedsLimit(Len(rows) * MaxLen(rows), CELL_LIMIT)
     THEN Raise(422, CapacityDetail(Len(rows), MaxLen(rows), Len(rows) * MaxLen(rows)),
                "cell_limit")
     ELSE pc' = "services" /\ UNCHANGED <<status, detail, raised_at>>
  /\ UNCHANGED <<sideVars, inputVars, intakeVars, rows, received, backendVars, task, bgVars>>

\* main.py:132-133, 144-148: get_google_services inside the try block
GetServices ==
  /\ pc = "services"
  /\ credCalls' = credCalls + 1
  /\ \E ok \in BOOLEAN :
       IF ok
       THEN pc' = "create" /\ UNCHANGED <<status, detail, raised_at>>
       ELSE Raise(500, Detail("Failed to create Google Sheet: credentials"), "credentials")
  /\ UNCHANGED <<sideVars, inputVars, intakeVars, docVars, received, createCalls, publishCalls,
                 calls, sheets, spreadsheet_id, task, bgVars>>

\* main.py:134-141, 144-148 and sheets.py:93-126
CreateSpreadsheet ==
  /\ pc = "create"
  /\ createCalls' = createCalls + 1
  /\ \E ok \in BOOLEAN :
       IF ok
       THEN /\ sheets' = Append(sheets, NewSheet(SheetTitle(filename), total_rows, total_cols))
            /\ spreadsheet_id' = Len(sheets) + 1
            /\ calls' = Append(calls, Call("create", Len(sheets) + 1, TRUE))
            /\ pc' = "publish"
            /\ UNCHANGED <<status, detail, raised_at>>
       ELSE /\ Raise(500, Detail("Failed to create Google Sheet: create"), "create")
            /\ calls' = Append(calls, Call("create", NoId, FALSE))
            /\ UNCHANGED <<sheets, spreadsheet_id>>
  /\ UNCHANGED <<sideVars, inputVars, intakeVars, docVars, received, credCalls, publishCalls,
                 task, bgVars>>

\* a publish call that is issued again after it failed
MakeSheetPublic_retry ==
  /\ pc = "publish"
  /\ publishCalls' = publishCalls + 1
  /\ \E ok \in BOOLEAN :
       /\ calls' = Append(calls, Call("publish", spreadsheet_id, ok))
       /\ IF ok
          THEN /\ sheets' = [sheets EXCEPT ![spreadsheet_id].public = TRUE]
               /\ pc' = "respond"
          ELSE UNCHANGED <<sheets, pc>>
  /\ UNCHANGED <<sideVars, inputVars, intakeVars, docVars, status, detail, raised_at,
                 received, credCalls, createCalls, spreadsheet_id, task, bgVars>>

\* main.py:142, 144-148 and sheets.py:129-142
MakeSheetPublic ==
  /\ pc = "publish"
  /\ publishCalls' = publishCalls + 1
  /\ \E ok \in BOOLEAN :
       /\ calls' = Append(calls, Call("publish", spreadsheet_id, ok))
       /\ IF ok
          THEN /\ sheets' = [sheets EXCEPT ![spreadsheet_id].public = TRUE]
               /\ pc' = "respond"
               /\ UNCHANGED <<status, detail, raised_at>>
          ELSE /\ Raise(500, Detail("Failed to create Google Sheet: publish"), "publish")
               /\ UNCHANGED sheets
  /\ UNCHANGED <<sideVars, inputVars, intakeVars, docVars, received, credCalls, createCalls,
                 spreadsheet_id, task, bgVars>>

\* main.py:150-166: add_task, then return the 202 JSONResponse
Respond ==
  /\ pc = "respond"
  /\ task' = [scheduled |-> TRUE, spreadsheet_id |-> spreadsheet_id, data |-> rows]
  /\ status' = 202
  /\ detail' = [spreadsheet_url |-> spreadsheet_id, rows_queued |-> total_rows - 1,
                columns |-> total_cols, total_cells |-> total_cells,
                filename |-> filename]
  /\ pc' = "done"
  /\ UNCHANGED <<sideVars, inputVars, intakeVars, docVars, raised_at, received, backendVars, bgVars>>

\* The framework transmits what upload_csv ended with.
SendResponse ==
  /\ pc = "done"
  /\ ~received.sent
  /\ received' = [sent |-> TRUE, status |-> status, body |-> detail]
  /\ UNCHANGED <<sideVars, inputVars, intakeVars, docVars, pc, status, detail, raised_at, backendVars,
                 task, bgVars>>

\* ---------------------------------------------------- the background run
BackgroundMayStart_m == task.scheduled

\* main.py:154, 156: a task added to background_tasks is run by the
\* framework once the response that carries it has been transmitted
BackgroundMayStart == task.scheduled /\ received.sent

\* background_upload is entered (main.py:29-34)
BgStart ==
  /\ bgpc = "idle"
  /\ BackgroundMayStart
  /\ bgpc' = "services"
  /\ UNCHANGED <<sideVars, inputVars, intakeVars, docVars, pc, status, detail, raised_at, received,
                 backendVars, task, bgOutcome, iter, start_index, attempt,
                 failed_batches, log>>

\* main.py:35, 37-38: get_google_services; an exception is caught and printed
BgGetServices ==
  /\ bgpc = "services"
  /\ \E ok \in BOOLEAN :
       IF ok
       THEN bgpc' = "preflight" /\ UNCHANGED bgOutcome
       ELSE bgpc' = "done" /\ bgOutcome' = "credentials_failed"
  /\ UNCHANGED <<sideVars, inputVars, intakeVars, docVars, pc, status, detail, raised_at, received,
                 backendVars, task, iter, start_index, attempt, failed_batches, log>>

\* sheets.py:194-212: empty-data return, pre-flight cell check, loop set-up
BgPreflight ==
  /\ bgpc = "preflight"
  /\ IF task.data = <<>>
     THEN /\ bgpc' = "done" /\ bgOutcome' = "no_data"
          /\ UNCHANGED <<iter, failed_batches>>
     ELSE IF PreflightExceeds(Len(task.data) * MaxLen(task.data), CELL_LIMIT)
     THEN /\ bgpc' = "done" /\ bgOutcome' = "capacity_exceeded"
          /\ UNCHANGED <<iter, failed_batches>>
     ELSE /\ bgpc' = "loop"
          /\ iter' = 0
          /\ failed_batches' = <<>>
          /\ UNCHANGED bgOutcome
  /\ UNCHANGED <<sideVars, inputVars, intakeVars, docVars, pc, status, detail, raised_at, received,
                 backendVars, task, start_index, attempt, log>>

\* sheets.py:214-217, 228-231: the head of the for loop, or its end
BgNextBatch ==
  /\ bgpc = "loop"
  /\ LET starts == RangeFrom(0, Len(task.data), BATCH_SIZE)
     IN IF iter < Len(starts)
        THEN /\ bgpc' = "attempt"
             /\ start_index' = starts[iter + 1]
             /\ attempt' = 0
             /\ UNCHANGED bgOutcome
        ELSE /\ bgpc' = "done"
             /\ bgOutcome' = "completed"
             /\ UNCHANGED <<start_index, attempt>>
  /\ UNCHANGED <<sideVars, inputVars, intakeVars, docVars, pc, status, detail, raised_at, received,
                 backendVars, task, iter, failed_batches, log>>

WriteEvent(sheet_row, batch, k, ok) ==
  [kind |-> "write", id |-> task.spreadsheet_id, row |-> sheet_row,
   values |-> batch, attempt |-> k, ok |-> ok, secs |-> 0]

SleepEvent(sheet_row, k, secs) ==
  [kind |-> "sleep", id |-> task.spreadsheet_id, row |-> sheet_row,
   values |-> <<>>, attempt |-> k, ok |-> FALSE, secs |-> secs]

\* sheets.py:158-174, 219-226: one values().update call of
\* upload_batch_with_retry. A call that fails may or may not have been
\* applied by the backend before the error reached the caller.
BgAttempt ==
  /\ bgpc = "attempt"
  /\ LET batch == BatchSlice(task.data, start_index, BATCH_SIZE)
         sheet_row == SheetRow(start_index)
         id == task.spreadsheet_id
     IN \E ok \in BOOLEAN, applied \in BOOLEAN :
          /\ ok => applied
          /\ log' = Append(log, WriteEvent(sheet_row, batch, attempt, ok))
          /\ sheets' = IF applied
                       THEN [sheets EXCEPT ![id].cells = WriteRange(@, sheet_row, batch)]
                       ELSE sheets
          /\ IF ok
             THEN /\ bgpc' = "loop"
                  /\ iter' = iter + 1
                  /\ UNCHANGED failed_batches
             ELSE IF IsLastAttempt(attempt)
             THEN /\ bgpc' = "loop"
                  /\ failed_batches' = RecordFailure(failed_batches, sheet_row)
                  /\ iter' = iter + 1
             ELSE /\ bgpc' = "sleep"
                  /\ UNCHANGED <<iter, failed_batches>>
  /\ UNCHANGED <<sideVars, inputVars, intakeVars, docVars, pc, status, detail, raised_at, received,
                 credCalls, createCalls, publishCalls, calls, spreadsheet_id, task,
                 bgOutcome, start_index, attempt>>

\* sheets.py:176-179, 158: time.sleep(wait_seconds), then the next attempt
BgSleep ==
  /\ bgpc = "sleep"
  /\ log' = Append(log, SleepEvent(SheetRow(start_index), attempt, WaitSeconds(attempt)))
  /\ attempt' = attempt + 1
  /\ bgpc' = "attempt"
  /\ UNCHANGED <<sideVars, inputVars, intakeVars, docVars, pc, status, detail, raised_at, received,
                 backendVars, task, bgOutcome, iter, start_index, failed_batches>>

Next ==
  \/ CheckFileType
  \/ ReadChunk
  \/ ReadEof
  \/ ParseAndValidate
  \/ CheckCellLimit
  \/ GetServices
  \/ CreateSpreadsheet
  \/ MakeSheetPublic
  \/ Respond
  \/ SendResponse
  \/ BgStart
  \/ BgGetServices
  \/ BgPreflight
  \/ BgNextBatch
  \/ BgAttempt
  \/ BgSleep

Spec == Init /\ [][Next]_vars

\* The framework transmits every response and runs every scheduled task, and
\* each step of the background run (an external call, a sleep) returns.
Fairness ==
  /\ WF_vars(SendResponse)
  /\ WF_vars(BgStart)
  /\ WF_vars(BgGetServices)
  /\ WF_vars(BgPreflight)
  /\ WF_vars(BgNextBatch)
  /\ WF_vars(BgAttempt)
  /\ WF_vars(BgSleep)

FairSpec == Spec /\ Fairness

\* ------------------------------------------- parse_csv and validate_csv alone
\* FnSpec calls the two functions of utils.py on every list of rows of the
\* model, outside a request: validate_csv on the list as given, and
\* validate_csv on what parse_csv returns for it.
FnDocs == SeqsUpTo(RawRowSet, FnMaxRows)

FnInit ==
  /\ NewRequest(<<"a">> \o CSV_SUFFIX, 0)
  /\ \E d \in FnDocs : call = [NoCall EXCEPT !.stage = "input", !.raw = d, !.rows = d]
  /\ NoRequests

\* utils.py:31-54: validate_csv(rows) on the rows as given; call.rows is the
\* list object after the call
FnValidate ==
  /\ call.stage = "input"
  /\ call' = [call EXCEPT !.stage = "validated", !.verdict = validate_csv(call.rows)]
  /\ UNCHANGED <<requestVars, concVars>>

\* utils.py:5-28: parse_csv on the rows csv.reader yields
FnParse ==
  /\ call.stage = "input"
  /\ call' = [call EXCEPT !.stage = "parsed", !.rows = parse_csv(call.raw)]
  /\ UNCHANGED <<requestVars, concVars>>

\* main.py:107-111: validate_csv(parse_csv(file_bytes))
FnValidateParsed ==
  /\ call.stage = "parsed"
  /\ call' = [call EXCEPT !.stage = "checked", !.verdict = validate_csv(call.rows)]
  /\ UNCHANGED <<requestVars, concVars>>

FnNext ==
  \/ FnValidate
  \/ FnParse
  \/ FnValidateParsed

FnSpec == FnInit /\ [][FnNext]_vars

\* ------------------------------------------------------------------
\* ConcSpec: NReq requests served at the same time. upload_csv is a
\* coroutine and background_upload runs on the thread pool, so the steps of
\* different requests interleave; each request has its own locals (reqs[r])
\* and all share the backend (drive). The requests start at main.py:131 with
\* rows that passed validation and the cell limit.
Requests == 1..NReq

ConcFiles ==
  { [filename |-> <<"a">> \o CSV_SUFFIX,
     rows |-> << <<"a", "b">>, <<"b", " ">>, <<"a", "b">> >>],
    [filename |-> <<"b">> \o CSV_SUFFIX,
     rows |-> << <<"b", "a">>, <<"a", "a">>, <<"b", "b">> >>] }

NewReq(file) ==
  [filename |-> file.filename, rows |-> file.rows, pc |-> "services", status |-> 0,
   spreadsheet_id |-> NoId, task |-> NoTask, bgpc |-> "idle", bgOutcome |-> Unset,
   iter |-> 0, start_index |-> 0, attempt |-> 0, failed_batches |-> <<>>]

ConcInit ==
  /\ NewRequest(<<"a">> \o CSV_SUFFIX, 0)
  /\ call = NoCall
  /\ \E files \in [Requests -> ConcFiles] : reqs = [r \in Requests |-> NewReq(files[r])]
  /\ drive = <<>>
  /\ events = {}

CreateEvent(r, id) ==
  [kind |-> "create", req |-> r, id |-> id, row |-> 0, values |-> <<>>]

UpdateEvent(r, id, sheet_row, batch) ==
  [kind |-> "write", req |-> r, id |-> id, row |-> sheet_row, values |-> batch]

ScheduledId_latest(r) == Len(drive)

\* main.py:154  add_task(background_upload, spreadsheet_id, rows): the id is
\* the handler's local variable
ScheduledId(r) == reqs[r].spreadsheet_id

\* main.py:133, 144-148
ConcGetServices(r) ==
  /\ reqs[r].pc = "services"
  /\ \E ok \in BOOLEAN :
       reqs' = [reqs EXCEPT ![r] = IF ok THEN [@ EXCEPT !.pc = "create"]
                                   ELSE [@ EXCEPT !.pc = "done", !.status = 500]]
  /\ UNCHANGED <<requestVars, call, drive, events>>

\* main.py:134-141, 144-148
ConcCreate(r) ==
  /\ reqs[r].pc = "create"
  /\ \E ok \in BOOLEAN :
       IF ok
       THEN /\ drive' = Append(drive, NewSheet(SheetTitle(reqs[r].filename),
                                               Len(reqs[r].rows), MaxLen(reqs[r].rows)))
            /\ events' = events \cup {CreateEvent(r, Len(drive) + 1)}
            /\ reqs' = [reqs EXCEPT ![r].pc = "publish", ![r].spreadsheet_id = Len(drive) + 1]
       ELSE /\ reqs' = [reqs EXCEPT ![r].pc = "done", ![r].status = 500]
            /\ UNCHANGED <<drive, events>>
  /\ UNCHANGED <<requestVars, call>>

\* main.py:142, 144-148
ConcPublish(r) ==
  /\ reqs[r].pc = "publish"
  /\ \E ok \in BOOLEAN :
       IF ok
       THEN /\ drive' = [drive EXCEPT ![reqs[r].spreadsheet_id].public = TRUE]
            /\ reqs' = [reqs EXCEPT ![r].pc = "respond"]
       ELSE /\ reqs' = [reqs EXCEPT ![r].pc = "done", ![r].status = 500]
            /\ UNCHANGED drive
  /\ UNCHANGED <<requestVars, call, events>>

\* main.py:154-166
ConcRespond(r) ==
  /\ reqs[r].pc = "respond"
  /\ reqs' = [reqs EXCEPT ![r].pc = "done", ![r].status = 202,
                          ![r].task = [scheduled |-> TRUE,
                                       spreadsheet_id |-> ScheduledId(r),
                                       data |-> reqs[r].rows]]
  /\ UNCHANGED <<requestVars, call, drive, events>>

\* main.py:29-38: the task starts once its request has been answered;
\* get_google_services may fail
ConcBgStart(r) ==
  /\ reqs[r].pc = "done"
  /\ reqs[r].task.scheduled
  /\ reqs[r].bgpc = "idle"
  /\ \E ok \in BOOLEAN :
       reqs' = [reqs EXCEPT ![r] =
                  IF ok THEN [@ EXCEPT !.bgpc = "preflight"]
                  ELSE [@ EXCEPT !.bgpc = "done", !.bgOutcome = "credentials_failed"]]
  /\ UNCHANGED <<requestVars, call, drive, events>>

\* sheets.py:193-210
ConcPreflight(r) ==
  /\ reqs[r].bgpc = "preflight"
  /\ LET data == reqs[r].task.data
     IN reqs' = [reqs EXCEPT ![r] =
                   IF data = <<>>
                   THEN [@ EXCEPT !.bgpc = "done", !.bgOutcome = "no_data"]
                   ELSE IF PreflightExceeds(Len(data) * MaxLen(data), CELL_LIMIT)
                   THEN [@ EXCEPT !.bgpc = "done", !.bgOutcome = "capacity_exceeded"]
                   ELSE [@ EXCEPT !.bgpc = "loop", !.iter = 0, !.failed_batches = <<>>]]
  /\ UNCHANGED <<requestVars, call, drive, events>>

\* sheets.py:214-217, 228-231
ConcNextBatch(r) ==
  /\ reqs[r].bgpc = "loop"
  /\ LET starts == RangeFrom(0, Len(reqs[r].task.data), BATCH_SIZE)
     IN reqs' = [reqs EXCEPT ![r] =
                   IF reqs[r].iter < Len(starts)
                   THEN [@ EXCEPT !.bgpc = "attempt", !.attempt = 0,
                                  !.start_index = starts[reqs[r].iter + 1]]
                   ELSE [@ EXCEPT !.bgpc = "done", !.bgOutcome = "completed"]]
  /\ UNCHANGED <<requestVars, call, drive, events>>

\* sheets.py:158-179, 219-226: one values().update call; after a failure
\* that is not the last, the sleep and the next attempt's turn
ConcAttempt(r) ==
  /\ reqs[r].bgpc = "attempt"
  /\ LET q == reqs[r]
         batch == BatchSlice(q.task.data, q.start_index, BATCH_SIZE)
         sheet_row == SheetRow(q.start_index)
         id == q.task.spreadsheet_id
     IN \E ok \in BOOLEAN, applied \in BOOLEAN :
          /\ ok => applied
          /\ events' = events \cup {UpdateEvent(r, id, sheet_row, batch)}
          /\ drive' = IF applied
                      THEN [drive EXCEPT ![id].cells = WriteRange(@, sheet_row, batch)]
                      ELSE drive
          /\ reqs' = [reqs EXCEPT ![r] =
                        IF ok
                        THEN [@ EXCEPT !.bgpc = "loop", !.iter = @ + 1]
                        ELSE IF IsLastAttempt(q.attempt)
                        THEN [@ EXCEPT !.bgpc = "loop", !.iter = @ + 1,
                                       !.failed_batches = RecordFailure(@, sheet_row)]
                        ELSE [@ EXCEPT !.attempt = @ + 1]]
  /\ UNCHANGED <<requestVars, call>>

ConcNext ==
  \/ \E r \in Requests : ConcGetServices(r)
  \/ \E r \in Requests : ConcCreate(r)
  \/ \E r \in Requests : ConcPublish(r)
  \/ \E r \in Requests : ConcRespond(r)
  \/ \E r \in Requests : ConcBgStart(r)
  \/ \E r \in Requests : ConcPreflight(r)
  \/ \E r \in Requests : ConcNextBatch(r)
  \/ \E r \in Requests : ConcAttempt(r)

ConcSpec == ConcInit /\ [][ConcNext]_vars

TypeOK ==
  /\ status \in {0, 202, 400, 422, 500}
  /\ pc \in {"check_type", "read", "parse", "cell_limit", "services", "create",
             "publish", "respond", "done"}
  /\ bgpc \in {"idle", "services", "preflight", "loop", "attempt", "sleep", "done"}

\* ===================================================================
\* Properties
\* ===================================================================
\* Vocabulary of the properties, stated without the operators of the model.
NameEndsInCsv ==
  /\ Len(filename) >= 4
  /\ filename[Len(filename) - 3] = "."
  /\ filename[Len(filename) - 2] = "c"
  /\ filename[Len(filename) - 1] = "s"
  /\ filename[Len(filename)] = "v"

BlankCell(c) == c \in {"", " "}

DocValid(rs) ==
  /\ Len(rs) >= 2
  /\ \E j \in 1..Len(rs[1]) : ~BlankCell(rs[1][j])

Widest(rs) ==
  CHOOSE n \in { Len(rs[i]) : i \in 1..Len(rs) } : \A i \in 1..Len(rs) : Len(rs[i]) <= n

BackendCalls == credCalls + createCalls + publishCalls

Ended == pc = "done"

\* C1: the create call (and so the publish call) is issued only when every
\* earlier stage passed - name ends in .csv, size within the limit, buffer
\* non-empty, document valid, rows x widest row within the cell limit - and
\* a request that ends in 400 or 422 has made no call to the backend.
C1_NoCallBeforeChecks ==
  /\ (createCalls > 0 \/ publishCalls > 0) =>
       /\ NameEndsInCsv
       /\ total_size <= MAX_FILE_SIZE
       /\ total_size > 0
       /\ DocValid(rows)
       /\ Len(rows) * Widest(rows) <= CELL_LIMIT
  /\ publishCalls > 0 => createCalls > 0
  /\ status \in {400, 422} => BackendCalls = 0

C1_Witness == createCalls = 1 /\ publishCalls = 1 /\ Ended

\* C2: a request that ends in an error response (400, 422 or 500) leaves
\* no spreadsheet in the backend and no background upload scheduled.
C2_ErrorLeavesNothing ==
  (Ended /\ status \in {400, 422, 500}) => (Len(sheets) = 0 /\ ~task.scheduled)

\* C3: the background run is scheduled only on the 202 path; it starts, and
\* so makes its first write, only after the 202 response was transmitted;
\* and what the caller received never changes afterwards, whatever the
\* background run meets.
C3_StateInv ==
  /\ task.scheduled => status = 202
  /\ (bgpc # "idle" \/ log # <<>>) =>
       (received.sent /\ received.status = 202 /\ task.scheduled)
  /\ received.sent => (received.status = status /\ received.body = detail)

C3_BackgroundAfterResponse ==
  /\ []C3_StateInv
  /\ [][received.sent => received' = received]_vars

C3_Witness ==
  /\ received.sent /\ received.status = 202
  /\ bgpc = "done"
  /\ failed_batches # <<>>
  /\ \E i \in 1..Len(log) : log[i].kind = "write" /\ log[i].ok

\* C4 as stated, on the requests whose buffer parse_csv accepts: the first
\* failing stage fixes the status, where the only causes of a 500 are a
\* failing create or publish call.
C4_StatusOf(provisioningFailed) ==
  IF ~NameEndsInCsv THEN 400
  ELSE IF total_size > MAX_FILE_SIZE THEN 400
  ELSE IF total_size = 0 THEN 400
  ELSE IF ~DocValid(rows) THEN 422
  ELSE IF Len(rows) * Widest(rows) > CELL_LIMIT THEN 422
  ELSE IF provisioningFailed THEN 500
  ELSE 202

C5_StateInv ==
  /\ SumSeq(chunks) <= MAX_FILE_SIZE
  /\ total_size > MAX_FILE_SIZE =>
       /\ chunks = <<>>
       /\ Ended /\ status = 400 /\ detail = [msg |-> "File too large."]
       /\ file_bytes = NoBytes /\ rows = <<>>
  /\ total_size <= MAX_FILE_SIZE => detail # [msg |-> "File too large."]
  /\ (total_size = MAX_FILE_SIZE /\ remaining = 0 /\ pc # "read") =>
       (NameEndsInCsv /\ raised_at \notin {"size", "empty"})

C5_BufferWithinLimit ==
  /\ []C5_StateInv
  /\ [][total_size > MAX_FILE_SIZE => remaining' = remaining]_vars

C5_Witness ==
  /\ total_size > MAX_FILE_SIZE /\ status = 400 /\ remaining > 0 /\ received.sent

\* ---- the background run, read off its log
Data == task.data

CeilDiv(n, d) == (n + d - 1) \div d

IsWrite(e) == e.kind = "write"

Writes == SelectSeq(log, IsWrite)

IsFirstAttempt(e) == e.kind = "write" /\ e.attempt = 0

\* one entry per batch, in the order the batches were first submitted
FirstAttempts == SelectSeq(log, IsFirstAttempt)

RunCompleted == bgpc = "done" /\ bgOutcome = "completed"

\* document rows (0-indexed) lo .. hi as a sequence
DocRows(lo, hi) == [i \in 1..(hi - lo + 1) |-> Data[lo + i]]

\* C6: N rows and batch size B give exactly ceil(N/B) batches, submitted in
\* ascending order; batch k holds document rows k*B .. min((k+1)*B, N)-1 and
\* targets destination row k*B + 1, so every row is in exactly one batch and
\* no two batches overlap (N = 25,001, B = 10,000: offsets 1, 10001, 20001).
C6_BatchPartition ==
  /\ task.scheduled =>
       LET N == Len(Data)
           B == BATCH_SIZE
           F == FirstAttempts
       IN /\ Len(F) <= CeilDiv(N, B)
          /\ RunCompleted => Len(F) = CeilDiv(N, B)
          /\ \A k \in 0..(Len(F) - 1) :
               /\ F[k + 1].row = k * B + 1
               /\ F[k + 1].values = DocRows(k * B, Min((k + 1) * B, N) - 1)
          /\ \A i \in 1..Len(log) :
               IsWrite(log[i]) =>
                 \E k \in 0..(Len(F) - 1) :
                   log[i].row = F[k + 1].row /\ log[i].values = F[k + 1].values
          /\ \A k1, k2 \in 1..Len(F) :
               k1 < k2 => F[k1].row + Len(F[k1].values) <= F[k2].row
          /\ RunCompleted =>
               \A r \in 0..(N - 1) :
                 Cardinality({ k \in 1..Len(F) :
                    F[k].row - 1 <= r /\ r < F[k].row - 1 + Len(F[k].values) }) = 1
  /\ LET S == RangeFrom(0, 25001, SRC_BATCH_SIZE)
     IN /\ Len(S) = 3
        /\ <<SheetRow(S[1]), SheetRow(S[2]), SheetRow(S[3])>> = <<1, 10001, 20001>>

C6_Witness ==
  /\ RunCompleted
  /\ Len(Data) > 2 * BATCH_SIZE
  /\ Len(FirstAttempts) >= 3
  /\ Len(FirstAttempts[Len(FirstAttempts)].values) < BATCH_SIZE

\* C7: a batch gets at most 3 write attempts and none after a success; a
\* failed attempt k (k = 1, 2) is followed by a wait of exactly 2^k seconds
\* and then attempt k+1; a batch that succeeds on attempt 3 is not recorded
\* as failed.
C7_RetryBackoff ==
  \A i \in 1..Len(log) :
    LET e == log[i]
    IN /\ e.kind = "write" =>
            /\ e.attempt \in {0, 1, 2}
            /\ e.attempt = 0 =>
                 (i = 1 \/ (/\ log[i - 1].kind = "write"
                            /\ log[i - 1].row < e.row
                            /\ (log[i - 1].ok \/ log[i - 1].attempt = 2)))
            /\ e.attempt > 0 =>
                 /\ i >= 3
                 /\ log[i - 1].kind = "sleep"
                 /\ log[i - 1].secs = (IF e.attempt = 1 THEN 2 ELSE 4)
                 /\ log[i - 2].kind = "write"
                 /\ ~log[i - 2].ok
                 /\ log[i - 2].row = e.row
                 /\ log[i - 2].attempt = e.attempt - 1
            /\ e.ok => \A j \in 1..Len(failed_batches) : failed_batches[j] # e.row
            /\ (~e.ok /\ e.attempt < 2 /\ i < Len(log)) => log[i + 1].kind = "sleep"
       /\ e.kind = "sleep" =>
            /\ i >= 2
            /\ log[i - 1].kind = "write" /\ ~log[i - 1].ok /\ log[i - 1].attempt < 2
            /\ i < Len(log) => (log[i + 1].kind = "write" /\ log[i + 1].row = e.row)

C7_Witness ==
  \E i \in 5..Len(log) :
    /\ log[i].kind = "write" /\ log[i].attempt = 2 /\ log[i].ok
    /\ log[i - 1].secs = 4 /\ log[i - 3].secs = 2
    /\ bgpc = "done"

\* C8: whatever writes fail, every batch of the run is attempted at least
\* once, and at the end of the run the failed-offsets list holds exactly the
\* start offsets k*B + 1 of the batches whose 3 attempts all failed, each
\* once and in ascending order.
AllAttemptsFailed(row) ==
  /\ \E i \in 1..Len(log) : IsWrite(log[i]) /\ log[i].row = row
  /\ \A i \in 1..Len(log) : (IsWrite(log[i]) /\ log[i].row = row) => ~log[i].ok
  /\ Cardinality({ i \in 1..Len(log) : IsWrite(log[i]) /\ log[i].row = row }) = 3

C8_FailedOffsets ==
  RunCompleted =>
    LET N == Len(Data)
        B == BATCH_SIZE
        offsets == { k * B + 1 : k \in 0..(CeilDiv(N, B) - 1) }
    IN /\ \A r \in offsets : \E i \in 1..Len(log) : IsWrite(log[i]) /\ log[i].row = r
       /\ \A r \in offsets :
            AllAttemptsFailed(r) <=> (\E j \in 1..Len(failed_batches) : failed_batches[j] = r)
       /\ \A j \in 1..Len(failed_batches) : failed_batches[j] \in offsets
       /\ \A j1, j2 \in 1..Len(failed_batches) :
            j1 < j2 => failed_batches[j1] < failed_batches[j2]

C8_Witness ==
  /\ RunCompleted
  /\ Len(failed_batches) = 2
  /\ failed_batches[1] = 1
  /\ \E i \in 1..Len(log) :
       /\ IsWrite(log[i]) /\ log[i].ok
       /\ failed_batches[1] < log[i].row /\ log[i].row < failed_batches[2]

\* C9: every attempt of a batch sends the same range and the same rows, a
\* second identical write leaves the destination as the first left it, and
\* after a run in which every batch ended in success destination rows 1..N
\* hold document rows 0..N-1, however many attempts failed on the way.
Dest == sheets[task.spreadsheet_id].cells

C9_IdempotentWrites ==
  task.scheduled =>
    /\ \A i, j \in 1..Len(log) :
         (IsWrite(log[i]) /\ IsWrite(log[j]) /\ log[i].row = log[j].row) =>
           log[i].values = log[j].values
    /\ \A i \in 1..Len(log) :
         IsWrite(log[i]) =>
           LET once == WriteRange(Dest, log[i].row, log[i].values)
           IN WriteRange(once, log[i].row, log[i].values) = once
    /\ (RunCompleted /\ failed_batches = <<>>) =>
         /\ DOMAIN Dest = 1..Len(Data)
         /\ \A r \in 1..Len(Data) :
              \A c \in DOMAIN Dest[r] :
                Dest[r][c] = IF c <= Len(Data[r]) THEN Data[r][c] ELSE NoValue

C9_Witness ==
  /\ RunCompleted /\ failed_batches = <<>>
  /\ Len(Data) > BATCH_SIZE
  /\ \E i \in 1..Len(log) : IsWrite(log[i]) /\ ~log[i].ok /\ log[i].row > 1
  /\ \E r \in 1..Len(Data) : Len(Data[r]) < total_cols

\* C10: the capacity check takes R = number of rows (header included) and
\* C = the widest row, fails with R, C and R x C in its message exactly when
\* R x C > the cell limit, and accepts R x C equal to the limit
\* (R = 10,001, C = 1000: 10,001,000, rejected).
C10_CapacityCheck ==
  /\ total_rows > 0 =>
       LET R == Len(rows)
           C == Widest(rows)
       IN /\ total_rows = R /\ total_cols = C /\ total_cells = R * C
          /\ raised_at = "cell_limit" <=> R * C > CELL_LIMIT
          /\ R * C > CELL_LIMIT =>
               /\ Ended /\ status = 422
               /\ detail.rows = R /\ detail.cols = C /\ detail.cells = R * C
               /\ BackendCalls = 0
  /\ (pc \in {"services", "create", "publish", "respond"} \/ status \in {202, 500}) =>
       (raised_at = "parse" \/ total_rows > 0)
  /\ ExceedsLimit(10001 * 1000, SRC_CELL_LIMIT)
  /\ 10001 * 1000 = 10001000
  /\ ~ExceedsLimit(SRC_CELL_LIMIT, SRC_CELL_LIMIT)

C10_Witness ==
  /\ raised_at = "cell_limit"
  /\ Len(rows[1]) < total_cols
  /\ detail.cells = total_rows * total_cols
  /\ received.sent

\* ---- parse_csv and validate_csv (FnSpec)
AllBlank(row) == \A j \in 1..Len(row) : BlankCell(row[j])

\* C11: validate_csv applies its rules in order, first failure wins: no row
\* gives the empty-document failure; exactly one row the missing-data-rows
\* failure, blank or not; two or more rows with an all-blank header the
\* empty-header failure; every other document passes, ragged or not; and
\* the rows are not modified.
C11_ValidateRules ==
  call.stage = "validated" =>
    LET d == call.raw
        v == call.verdict
    IN /\ Len(d) = 0 => v = [valid |-> FALSE, msg |-> "The CSV file is empty."]
       /\ Len(d) = 1 =>
            v = [valid |-> FALSE,
                 msg |-> "The CSV file must have at least a header row and one data row."]
       /\ (Len(d) >= 2 /\ AllBlank(d[1])) =>
            v = [valid |-> FALSE, msg |-> "The header row appears to be empty."]
       /\ (Len(d) >= 2 /\ ~AllBlank(d[1])) => v = [valid |-> TRUE, msg |-> ""]
       /\ call.rows = d

C11_Witness ==
  /\ call.stage = "validated"
  /\ call.verdict.valid
  /\ Len(call.raw) = 3
  /\ Len(call.raw[2]) > Len(call.raw[1])
  /\ AllBlank(call.raw[3])

\* indices of the rows of d that have a cell which is non-empty once trimmed
KeptIndices(d) == { i \in 1..Len(d) : ~AllBlank(d[i]) }

\* the k-th smallest index of a set of indices
KthOf(I, k) == CHOOSE i \in I : Cardinality({ j \in I : j < i }) = k - 1

\* C12: parse_csv returns exactly the rows that have a cell which is
\* non-empty after trimming, in their original order, and drops every row
\* whose cells are all empty or whitespace; [header, blank_row, data_row]
\* parses to [header, data_row] and passes validation.
C12_ParseKeepsNonBlank ==
  call.stage \in {"parsed", "checked"} =>
    LET d == call.raw
        K == KeptIndices(d)
    IN /\ Len(call.rows) = Cardinality(K)
       /\ \A k \in 1..Len(call.rows) : call.rows[k] = d[KthOf(K, k)]
       /\ \A k \in 1..Len(call.rows) : ~AllBlank(call.rows[k])
       /\ (/\ call.stage = "checked"
           /\ Len(d) = 3 /\ ~AllBlank(d[1]) /\ AllBlank(d[2]) /\ ~AllBlank(d[3])) =>
            (call.rows = <<d[1], d[3]>> /\ call.verdict = [valid |-> TRUE, msg |-> ""])

C12_Witness ==
  /\ call.stage = "checked"
  /\ Len(call.raw) = 3
  /\ call.raw[1] = <<"b", " ">> /\ call.raw[2] = <<" ", "">> /\ call.raw[3] = <<"a">>
  /\ call.rows = <<call.raw[1], call.raw[3]>>
  /\ call.verdict.valid

\* C20: validate_csv(parse_csv(buffer)) is the empty-document failure, the
\* missing-data-rows failure or success, never the empty-header failure;
\* a blank first line is dropped and the first non-blank row is the header.
C20_EmptyHeaderUnreachable ==
  call.stage = "checked" =>
    LET d == call.raw
        K == KeptIndices(d)
    IN /\ call.verdict.msg # "The header row appears to be empty."
       /\ call.verdict \in
            { [valid |-> FALSE, msg |-> "The CSV file is empty."],
              [valid |-> FALSE,
               msg |-> "The CSV file must have at least a header row and one data row."],
              [valid |-> TRUE, msg |-> ""] }
       /\ K # {} =>
            /\ call.rows[1] = d[KthOf(K, 1)]
            /\ \A i \in 1..(KthOf(K, 1) - 1) : AllBlank(d[i])
            /\ ~AllBlank(call.rows[1])
       /\ call.verdict.valid <=> Cardinality(K) >= 2
       /\ Cardinality(K) = 0 <=> call.verdict.msg = "The CSV file is empty."

C20_Witness ==
  /\ call.stage = "checked"
  /\ Len(call.raw) = 3
  /\ AllBlank(call.raw[1]) /\ call.raw[1] # <<>>
  /\ call.rows = <<call.raw[2], call.raw[3]>>
  /\ call.verdict.valid

\* ---- one request (Spec), continued
\* C13: on the success path the destination was created with rowCount = the
\* number of parsed rows and columnCount = the widest row and is never
\* resized; the 202 body reports rows_queued = rows - 1, columns = that
\* maximum and total_cells = rows x columns; and the background run is
\* handed the very rows these numbers were computed from.
C13_ExactDimensions ==
  /\ \A id \in 1..Len(sheets) :
       /\ sheets[id].rowCount = Len(rows)
       /\ sheets[id].columnCount = Widest(rows)
       /\ DOMAIN sheets[id].cells = 1..Len(rows)
       /\ \A i \in 1..Len(rows) : DOMAIN sheets[id].cells[i] = 1..Widest(rows)
  /\ status = 202 =>
       /\ Len(sheets) = 1 /\ spreadsheet_id = 1
       /\ detail.spreadsheet_url = spreadsheet_id
       /\ detail.rows_queued = Len(rows) - 1
       /\ detail.columns = Widest(rows)
       /\ detail.total_cells = Len(rows) * Widest(rows)
       /\ detail.filename = filename
       /\ task.scheduled /\ task.data = rows /\ task.spreadsheet_id = spreadsheet_id

C13_Witness ==
  /\ status = 202 /\ received.sent
  /\ RunCompleted
  /\ Len(rows) > Widest(rows)
  /\ Len(rows[1]) < Widest(rows)

C15_ProvisionOnce ==
  LET creates == { i \in 1..Len(calls) : calls[i].op = "create" }
      publishes == { i \in 1..Len(calls) : calls[i].op = "publish" }
  IN /\ Cardinality(creates) <= 1
     /\ Cardinality(publishes) <= 1
     /\ \A p \in publishes :
          \E c \in creates : c < p /\ calls[c].ok /\ calls[c].id = calls[p].id
     /\ \A i \in 1..Len(calls) :
          ~calls[i].ok => (i = Len(calls) /\ Ended /\ status = 500 /\ ~task.scheduled)
     /\ (status = 202 \/ task.scheduled) =>
          /\ \E c \in creates : calls[c].ok /\ calls[c].id = spreadsheet_id
          /\ \E p \in publishes : calls[p].ok /\ calls[p].id = spreadsheet_id
          /\ sheets[spreadsheet_id].public
     /\ (received.sent /\ received.status = 202) => Len(calls) = 2

C15_Witness ==
  /\ Len(calls) = 2
  /\ calls[1].ok /\ ~calls[2].ok
  /\ received.sent /\ received.status = 500

\* C16: every background run ends, whatever its batches do: given that each
\* external call returns, the run is over after at most 3 x ceil(N/B) write
\* attempts and 2 x ceil(N/B) backoff waits; no exception leaves
\* background_upload; a credential or capacity failure ends it with no write.
IsSleep(e) == e.kind = "sleep"

C16_StateInv ==
  /\ task.scheduled =>
       LET nb == CeilDiv(Len(Data), BATCH_SIZE)
       IN /\ Len(Writes) <= 3 * nb
          /\ Len(SelectSeq(log, IsSleep)) <= 2 * nb
  /\ bgpc = "done" => bgOutcome \in {"completed", "credentials_failed", "capacity_exceeded"}
  /\ bgOutcome \in {"credentials_failed", "capacity_exceeded"} => log = <<>>
  /\ bgOutcome # Unset => bgpc = "done"

Stem(f) == SubSeq(f, 1, Len(f) - Len(CSV_SUFFIX))

TitleOfStem(f) ==
  LET t == StripChars(Stem(f))
  IN IF t = <<>> THEN <<"Uploaded CSV">> ELSE t

C18_TitleKeepsName ==
  \A i \in 1..Len(calls) :
    (calls[i].op = "create" /\ calls[i].ok) =>
      sheets[calls[i].id].title = TitleOfStem(filename)

\* C19: a batch whose third attempt fails is given up only after a wait of
\* 8 seconds: fail, wait 2s, fail, wait 4s, fail, wait 8s, raise.
C19_WaitBeforeRaise ==
  \A j \in 1..Len(failed_batches) :
    LET waits == { log[i].secs : i \in { k \in 1..Len(log) :
                     IsSleep(log[k]) /\ log[k].row = failed_batches[j] } }
    IN waits = {2, 4, 8}

\* C17: with several requests in flight and their background runs
\* interleaved, each accepted request has its own destination (the same file
\* uploaded twice gives two), every write of a run goes to the destination
\* created for its own request, no destination is written by two runs, and
\* the rows of a request are changed by no one.
Creations == { e \in events : e.kind = "create" }

Updates == { e \in events : e.kind = "write" }

Accepted == { r \in DOMAIN reqs : reqs[r].task.scheduled }

C17_StateInv ==
  /\ \A c1, c2 \in Creations : (c1.id = c2.id) <=> (c1.req = c2.req)
  /\ \A r \in Accepted :
       /\ \E c \in Creations : c.req = r /\ c.id = reqs[r].task.spreadsheet_id
       /\ reqs[r].task.data = reqs[r].rows
  /\ \A r1, r2 \in Accepted :
       r1 # r2 => reqs[r1].task.spreadsheet_id # reqs[r2].task.spreadsheet_id
  /\ \A e \in Updates :
       /\ \E c \in Creations : c.req = e.req /\ c.id = e.id
       /\ \A k \in 1..Len(e.values) : e.values[k] = reqs[e.req].rows[e.row + k - 1]
  /\ \A e1, e2 \in Updates : e1.id = e2.id => e1.req = e2.req
  /\ \A c \in Creations :
       \A i \in DOMAIN drive[c.id].cells : \A j \in DOMAIN drive[c.id].cells[i] :
         drive[c.id].cells[i][j] \in {NoValue, reqs[c.req].rows[i][j]}

C17_RequestsIsolated ==
  /\ []C17_StateInv
  /\ [][\A r \in DOMAIN reqs :
          /\ r \in DOMAIN reqs'
          /\ reqs'[r].rows = reqs[r].rows
          /\ reqs'[r].filename = reqs[r].filename]_vars

C17_Witness ==
  \E r1, r2 \in DOMAIN reqs :
    /\ r1 # r2
    /\ reqs[r1].filename = reqs[r2].filename /\ reqs[r1].rows = reqs[r2].rows
    /\ \A r \in {r1, r2} :
         /\ reqs[r].bgOutcome = "completed" /\ reqs[r].failed_batches = <<>>
         /\ drive[reqs[r].spreadsheet_id].cells = reqs[r].rows
         /\ \E e \in Updates : e.req = r
    /\ reqs[r1].spreadsheet_id # reqs[r2].spreadsheet_id

====
